---- MODULE Spec2Model ----
(***************************************************************************)
(* Model of two pieces of the manifold web client:                         *)
(*   - groupNotifications and the hooks around it                          *)
(*     (web/hooks/use-notifications.ts);                                   *)
(*   - the nonce-guarded search effect of the omnisearch Results component *)
(*     (components/search/omni-search.tsx).                                *)
(***************************************************************************)
EXTENDS Integers, Sequences, FiniteSets, Bags, TLC

VARIABLES
    privateUser,     \* the user whose notifications are listened for
    loaded,          \* useStore has delivered a first snapshot
    notifications,   \* the snapshot returned by useNotifications
    grouped,         \* value of useGroupedNotifications
    unseenGrouped,   \* value of useUnseenGroupedNotification
    query,           \* OmniSearch's query state
    mounts,          \* Results instances mounted so far; the last is the live one
    effectPending,   \* the live Results has rendered and its effect has not run
    nonce,           \* nonce.current of each Results instance
    searchResults,   \* the searchResults state of the live Results
    searches         \* the Promise.all of each run of the effect, in issue order

groupVars == <<privateUser, loaded, notifications, grouped, unseenGrouped>>
searchVars == <<query, mounts, effectPending, nonce, searchResults, searches>>
vars == <<groupVars, searchVars>>

----------------------------------------------------------------------------
(* Bounds *)
MaxLen == 3
MaxSearches == 2

----------------------------------------------------------------------------
(* JavaScript values *)

\* An optional field is <<>> when absent and <<v>> when present.
None == <<>>
Some(v) == <<v>>

MsPerDay == 24 * 60 * 60 * 1000

\* new Date(t).toDateString() for the days the model uses (UTC).
DayNames == <<"Thu Jan 01 1970", "Fri Jan 02 1970">>

toDateString(t) == DayNames[(t \div MsPerDay) + 1]

\* Variant: an undefined key becomes the empty string.
ToPropertyKeyEmpty(v) == IF v = None THEN "" ELSE v[1]

\* Property keys are strings: an undefined key becomes "undefined".
ToPropertyKey(v) == IF v = None THEN "undefined" ELSE v[1]

\* The value of a key that is a canonical array index, -1 for any other key.
ArrayIndexOf(k) ==
    IF k = "7" THEN 7
    ELSE IF k = "12" THEN 12
    ELSE -1

\* The elements of an array.
Elements(arr) == {arr[i] : i \in 1..Len(arr)}

\* A callback is passed as the function from its arguments to its result.
\* Array.prototype.sort: stable, ordered by the comparator.
sort(arr, cmp) ==
    LET \* x goes after every element that does not have to follow it
        insertSorted(sorted, x) ==
            LET fits(p) == \A j \in 1..p : cmp[sorted[j], x] <= 0
                p == CHOOSE q \in 0..Len(sorted) :
                        /\ fits(q)
                        /\ \A r \in (q + 1)..Len(sorted) : ~fits(r)
            IN SubSeq(sorted, 1, p) \o <<x>> \o SubSeq(sorted, p + 1, Len(sorted))
        sortFrom[n \in 0..Len(arr)] ==
            IF n = 0 THEN <<>> ELSE insertSorted(sortFrom[n - 1], arr[n])
    IN sortFrom[Len(arr)]

\* Own property keys of an object whose keys were inserted in the given
\* order: array indices ascending, then the other keys in insertion order.
OwnPropertyKeys(inserted) ==
    LET isIndex(k) == ArrayIndexOf(k) >= 0
        isName(k) == ArrayIndexOf(k) < 0
        byValue(a, b) == ArrayIndexOf(a) - ArrayIndexOf(b)
    IN sort(SelectSeq(inserted, isIndex),
            [a \in Elements(inserted), b \in Elements(inserted) |-> byValue(a, b)])
       \o SelectSeq(inserted, isName)

\* The keys in the order lodash groupBy first assigns them.
insertedKeys(collection, iteratee) ==
    LET keysFrom[n \in 0..Len(collection)] ==
            IF n = 0 THEN <<>>
            ELSE LET before == keysFrom[n - 1]
                     key == ToPropertyKey(iteratee[collection[n]])
                 IN IF \E i \in 1..Len(before) : before[i] = key
                    THEN before
                    ELSE Append(before, key)
    IN keysFrom[Len(collection)]

\* lodash groupBy: an object, given as its entries in enumeration order.
groupBy(collection, iteratee) ==
    LET keys == OwnPropertyKeys(insertedKeys(collection, iteratee))
        valueOf(k) ==
            LET hasKey(x) == ToPropertyKey(iteratee[x]) = k
            IN SelectSeq(collection, hasKey)
    IN [i \in 1..Len(keys) |-> [key |-> keys[i], value |-> valueOf(keys[i])]]

\* Variant: the second part is the whole collection.
partitionOverlapping(collection, predicate) ==
    LET passes(x) == predicate[x]
    IN <<SelectSeq(collection, passes), collection>>

\* lodash partition: <<elements satisfying the predicate, the others>>.
partition(collection, predicate) ==
    LET passes(x) == predicate[x]
        rejects(x) == ~predicate[x]
    IN <<SelectSeq(collection, passes), SelectSeq(collection, rejects)>>

----------------------------------------------------------------------------
(* groupNotifications *)

\* Variant: 'loan' is missing from the list.
incomeSourceTypesWithoutLoan == {"bonus", "tip", "betting_streak_bonus", "tip_and_like"}

incomeSourceTypes == {"bonus", "tip", "loan", "betting_streak_bonus", "tip_and_like"}

\* notification.sourceType ?? ''
sourceTypeOrEmpty(n) == IF n.sourceType = None THEN "" ELSE n.sourceType[1]

isIncome(n) == sourceTypeOrEmpty(n) \in incomeSourceTypes

dayOf(n) == Some(toDateString(n.createdTime))

contractIdOf(n) == n.sourceContractId

\* Variant: the comparator's operands are swapped.
compareCreatedTimeAscending(a, b) == a.createdTime - b.createdTime

compareCreatedTime(a, b) == b.createdTime - a.createdTime

\* Variant: the negation is dropped.
someSeen(ns) == \E i \in 1..Len(ns) : ns[i].isSeen

\* notificationsForContractId.some((n) => !n.isSeen)
someUnseen(ns) == \E i \in 1..Len(ns) : ~ns[i].isSeen

incomeGroup(incomeNotifications, day) ==
    IF Len(incomeNotifications) > 0
    THEN << [notifications |-> incomeNotifications,
             groupedById   |-> "income" \o day,
             isSeen        |-> incomeNotifications[1].isSeen,
             timePeriod    |-> day,
             type          |-> "income"] >>
    ELSE <<>>

\* Variant: groupedById is set to the day.
normalGroupsKeyedByDay(normalNotificationsGroupedByDay, day) ==
    LET groupedNotificationsByContractId ==
            groupBy(normalNotificationsGroupedByDay,
                    [n \in Elements(normalNotificationsGroupedByDay) |-> contractIdOf(n)])
    IN [i \in 1..Len(groupedNotificationsByContractId) |->
          LET contractId == groupedNotificationsByContractId[i].key
              notificationsForContractId ==
                  sort(groupedNotificationsByContractId[i].value,
                       [a \in Elements(groupedNotificationsByContractId[i].value),
                        b \in Elements(groupedNotificationsByContractId[i].value) |->
                           compareCreatedTime(a, b)])
          IN [notifications |-> notificationsForContractId,
              groupedById   |-> day,
              isSeen        |-> someUnseen(notificationsForContractId),
              timePeriod    |-> day,
              type          |-> "normal"]]

\* map over the day's normal records grouped by sourceContractId.
normalGroups(normalNotificationsGroupedByDay, day) ==
    LET groupedNotificationsByContractId ==
            groupBy(normalNotificationsGroupedByDay,
                    [n \in Elements(normalNotificationsGroupedByDay) |-> contractIdOf(n)])
    IN [i \in 1..Len(groupedNotificationsByContractId) |->
          LET contractId == groupedNotificationsByContractId[i].key
              notificationsForContractId ==
                  sort(groupedNotificationsByContractId[i].value,
                       [a \in Elements(groupedNotificationsByContractId[i].value),
                        b \in Elements(groupedNotificationsByContractId[i].value) |->
                           compareCreatedTime(a, b)])
          IN [notifications |-> notificationsForContractId,
              groupedById   |-> contractId,
              isSeen        |-> someUnseen(notificationsForContractId),
              timePeriod    |-> day,
              type          |-> "normal"]]

groupsOfDay(entry) ==
    LET day == entry.key
        parts == partition(entry.value, [n \in Elements(entry.value) |-> isIncome(n)])
    IN incomeGroup(parts[1], day) \o normalGroups(parts[2], day)

RECURSIVE forEachDay(_, _)
forEachDay(byDay, n) ==
    IF n = 0 THEN <<>>
    ELSE forEachDay(byDay, n - 1) \o groupsOfDay(byDay[n])

groupNotifications(ns) ==
    LET notificationGroupsByDay == groupBy(ns, [n \in Elements(ns) |-> dayOf(n)])
    IN forEachDay(notificationGroupsByDay, Len(notificationGroupsByDay))

\* notifications.filter((n) => !n.isSeen)
unseenOf(ns) ==
    LET unseen(n) == ~n.isSeen
    IN SelectSeq(ns, unseen)

----------------------------------------------------------------------------
(* The notification records the listener can deliver *)

\* Two users whose notifications come from different populations: the first
\* varies seen state and source type, the second varies the contract id.
PrivateUsers == {"seer", "trader"}

NotificationFields(user) ==
    IF user = "seer"
    THEN [createdTime : {100, 200, MsPerDay + 100}, isSeen : BOOLEAN,
          sourceType : {Some("loan"), Some("comment"), None},
          sourceContractId : {Some("m1")}]
    ELSE [createdTime : {100, MsPerDay + 100}, isSeen : {FALSE},
          sourceType : {Some("tip"), Some("comment")},
          sourceContractId : {None, Some("m1"), Some("7"), Some("undefined"),
                              Some("incomeThu Jan 01 1970")}]

\* A delivered record; its id is its position in the snapshot.
Notification(f, id) ==
    [id |-> id, createdTime |-> f.createdTime, isSeen |-> f.isSeen,
     sourceType |-> f.sourceType, sourceContractId |-> f.sourceContractId]

----------------------------------------------------------------------------
(* Hooks *)

GroupInit ==
    /\ privateUser \in PrivateUsers
    /\ loaded = FALSE
    /\ notifications = <<>>
    /\ grouped = <<>>
    /\ unseenGrouped = <<>>

\* Both memoised hooks recompute when the snapshot changes.
Render(ns) ==
    /\ notifications' = ns
    /\ grouped' = groupNotifications(ns)
    /\ unseenGrouped' = groupNotifications(unseenOf(ns))

\* listenForNotifications delivers the first (empty) snapshot.
Subscribe ==
    /\ ~loaded
    /\ loaded' = TRUE
    /\ Render(<<>>)
    /\ UNCHANGED privateUser

\* listenForNotifications delivers a snapshot with one more record.
Receive ==
    /\ loaded
    /\ Len(notifications) < MaxLen
    /\ \E f \in NotificationFields(privateUser) :
         Render(Append(notifications, Notification(f, Len(notifications) + 1)))
    /\ UNCHANGED <<privateUser, loaded>>

GroupNext == (Subscribe \/ Receive) /\ UNCHANGED searchVars

----------------------------------------------------------------------------
(* OmniSearch and the effect of Results *)

Queries == {"", "cat", "@cat"}

\* query.match(/^(%|#|@)/) ? query.charAt(0) : ''
prefixOf(q) ==
    IF q = "@cat" THEN "@"
    ELSE IF q = "#cat" THEN "#"
    ELSE IF q = "%cat" THEN "%"
    ELSE ""

userHitLimit(q) == IF prefixOf(q) = "" THEN 2 ELSE IF prefixOf(q) = "@" THEN 25 ELSE 0
groupHitLimit(q) == IF prefixOf(q) = "" THEN 2 ELSE IF prefixOf(q) = "#" THEN 25 ELSE 0
marketHitLimit(q) == IF prefixOf(q) = "" THEN 20 ELSE IF prefixOf(q) = "%" THEN 25 ELSE 0

Services == {"users", "groups", "markets"}

\* What a service answers to the call-th run of the effect.
Response(service, q, limit, call) ==
    <<[service |-> service, query |-> q, limit |-> limit, call |-> call]>>

\* searchPages(query, 2): computed locally.
searchPages(q, limit) == <<[service |-> "pages", query |-> q, limit |-> limit]>>

\* The initial searchResults state.
NoResults == [pageHits |-> <<>>, userHits |-> <<>>, groupHits |-> <<>>, marketHits |-> <<>>]

\* The value the then-callback of the call-th search passes to setSearchResults.
ResultsOf(call) ==
    LET q == searches[call].query
    IN [pageHits   |-> IF prefixOf(q) # "" THEN <<>> ELSE searchPages(q, 2),
        userHits   |-> Response("users", q, userHitLimit(q), call),
        groupHits  |-> Response("groups", q, groupHitLimit(q), call),
        marketHits |-> Response("markets", q, marketHitLimit(q), call)]

mounted == query # ""

SearchInit ==
    /\ query = ""
    /\ mounts = 0
    /\ effectPending = FALSE
    /\ nonce = <<>>
    /\ searchResults = NoResults
    /\ searches = <<>>

\* Combobox.Input onChange: setQuery, then OmniSearch renders Results for a
\* non-empty query and DefaultResults for the empty one.
SetQuery(q) ==
    /\ q # query
    /\ ~effectPending
    /\ query' = q
    /\ IF q = ""
       THEN \* Results unmounts
            /\ UNCHANGED <<mounts, nonce, effectPending>>
            /\ searchResults' = NoResults
       ELSE /\ Len(searches) < MaxSearches
            /\ effectPending' = TRUE
            /\ IF query = ""
               THEN \* a new Results mounts: useRef(0), useState(empty)
                    /\ mounts' = mounts + 1
                    /\ nonce' = Append(nonce, 0)
                    /\ searchResults' = NoResults
               ELSE \* the live Results renders again with changed deps
                    UNCHANGED <<mounts, nonce, searchResults>>
    /\ UNCHANGED searches

\* Variant: the effect does not increment the nonce.
RunEffectSameNonce ==
    /\ effectPending
    /\ effectPending' = FALSE
    /\ searches' = Append(searches,
           [instance |-> mounts, thisNonce |-> nonce[mounts], query |-> query,
            promises |-> [sv \in Services |-> "pending"], called |-> FALSE])
    /\ UNCHANGED <<query, mounts, searchResults, nonce>>

\* The body of useEffect: bump the nonce and start the three searches.
RunEffect ==
    /\ effectPending
    /\ effectPending' = FALSE
    /\ nonce' = [nonce EXCEPT ![mounts] = @ + 1]
    /\ searches' = Append(searches,
           [instance |-> mounts, thisNonce |-> nonce[mounts] + 1, query |-> query,
            promises |-> [sv \in Services |-> "pending"], called |-> FALSE])
    /\ UNCHANGED <<query, mounts, searchResults>>

\* One of the three service calls of a search resolves.
Resolve(call, service) ==
    /\ searches[call].promises[service] = "pending"
    /\ searches' = [searches EXCEPT ![call].promises[service] = "fulfilled"]
    /\ UNCHANGED <<query, mounts, effectPending, nonce, searchResults>>

\* One of the three service calls of a search fails.
Reject(call, service) ==
    /\ searches[call].promises[service] = "pending"
    /\ searches' = [searches EXCEPT ![call].promises[service] = "rejected"]
    /\ UNCHANGED <<query, mounts, effectPending, nonce, searchResults>>

allFulfilled(call) == \A sv \in Services : searches[call].promises[sv] = "fulfilled"

\* Variant: the callback does not compare the nonces.
ThenCallbackUnguarded(call) ==
    /\ allFulfilled(call)
    /\ ~searches[call].called
    /\ searches' = [searches EXCEPT ![call].called = TRUE]
    /\ IF mounted /\ searches[call].instance = mounts
       THEN searchResults' = ResultsOf(call)
       ELSE UNCHANGED searchResults
    /\ UNCHANGED <<query, mounts, effectPending, nonce>>

\* The callback passed to Promise.all(...).then.
ThenCallback(call) ==
    /\ allFulfilled(call)
    /\ ~searches[call].called
    /\ searches' = [searches EXCEPT ![call].called = TRUE]
    /\ IF searches[call].thisNonce = nonce[searches[call].instance]
       THEN \* setSearchResults; it does nothing on an unmounted instance
            IF mounted /\ searches[call].instance = mounts
            THEN searchResults' = ResultsOf(call)
            ELSE UNCHANGED searchResults
       ELSE UNCHANGED searchResults
    /\ UNCHANGED <<query, mounts, effectPending, nonce>>

SearchNext ==
    /\ \/ \E q \in Queries : SetQuery(q)
       \/ RunEffect
       \/ \E call \in 1..Len(searches), sv \in Services : Resolve(call, sv)
       \/ \E call \in 1..Len(searches), sv \in Services : Reject(call, sv)
       \/ \E call \in 1..Len(searches) : ThenCallback(call)
    /\ UNCHANGED groupVars

----------------------------------------------------------------------------
(* Specifications *)

Init == GroupInit /\ SearchInit

GroupSpec == Init /\ [][GroupNext]_vars

\* The search runs beside one user's notification hooks, which stay idle.
SearchStart == Init /\ privateUser = "seer"

SearchSpec == SearchStart /\ [][SearchNext]_vars

\* A settled Promise.all always runs its callback and the effect of a render
\* always runs; nothing makes a service answer.
Callbacks == \E call \in 1..Len(searches) : ThenCallback(call)

FairSearchSpec ==
    /\ SearchStart
    /\ [][SearchNext]_vars
    /\ WF_vars(RunEffect /\ UNCHANGED groupVars)
    /\ WF_vars(Callbacks /\ UNCHANGED groupVars)

----------------------------------------------------------------------------
(* Properties of the search effect *)

Calls3 == 1..Len(searches)

\* The last search the live Results issued, 0 when there is none.
LatestCall ==
    IF mounted /\ ~effectPending /\ \E c \in Calls3 : searches[c].instance = mounts
    THEN CHOOSE c \in Calls3 :
            /\ searches[c].instance = mounts
            /\ \A d \in Calls3 : searches[d].instance = mounts => d <= c
    ELSE 0

\* C3: a step that changes the displayed results is the callback of the
\* search the live Results issued last, and a callback whose nonce is no
\* longer current leaves the displayed results unchanged.
C3_OnlyLatestObserved ==
    [][/\ (mounted' /\ searchResults' # searchResults /\ searchResults' # NoResults) =>
            \E c \in Calls3 :
                /\ searches[c].instance = mounts
                /\ \A d \in Calls3 : d <= c
                /\ searches'[c].called /\ ~searches[c].called
                /\ searchResults' = ResultsOf(c)
       /\ \A c \in Calls3 :
            (~searches[c].called /\ searches'[c].called
               /\ searches[c].thisNonce # nonce[searches[c].instance])
              => searchResults' = searchResults
      ]_vars

\* An earlier search of the live Results completed after the latest one had
\* set the displayed results, and the displayed results are the latest's.
C3_Witness ==
    /\ LatestCall > 1
    /\ searchResults = ResultsOf(LatestCall)
    /\ \E c \in Calls3 :
         /\ c < LatestCall
         /\ searches[c].instance = mounts
         /\ searches[c].called

LatestAllFulfilled == LatestCall > 0 /\ allFulfilled(LatestCall)

DisplayedIsLatest == LatestCall > 0 /\ searchResults = ResultsOf(LatestCall)

\* C10: if from some point on the latest search of the live Results has all
\* three answers, then from some point on the displayed results are that
\* search's results; and displayed results are always those of a search
\* whose three service calls all resolved.
C10_LatestEventuallyDisplayed ==
    /\ (<>[]LatestAllFulfilled) => (<>[]DisplayedIsLatest)
    /\ [](\A c \in Calls3 : searchResults = ResultsOf(c) => allFulfilled(c))

\* The latest results are displayed although an earlier search of the live
\* Results ran its callback too.
C10_Witness ==
    /\ DisplayedIsLatest
    /\ \E c \in Calls3 : c < LatestCall /\ searches[c].called /\ searches[c].instance = mounts

----------------------------------------------------------------------------
(* Properties of groupNotifications, stated over an input and its output *)

\* The two calls the hooks make, as <<input, output>> pairs.
Calls == {<<notifications, grouped>>, <<unseenOf(notifications), unseenGrouped>>}

Indices(s) == 1..Len(s)

NormalIn(gs) == {i \in Indices(gs) : gs[i].type = "normal"}
IncomeIn(gs) == {i \in Indices(gs) : gs[i].type = "income"}

\* The places <<group, member>> of the output that hold the input's k-th record.
PlacesOf(ns, gs, k) ==
    {pl \in UNION {{<<i, j>> : j \in Indices(gs[i].notifications)} : i \in Indices(gs)} :
        gs[pl[1]].notifications[pl[2]] = ns[k]}

MemberCount(gs) ==
    LET total[i \in 0..Len(gs)] ==
            IF i = 0 THEN 0 ELSE total[i - 1] + Len(gs[i].notifications)
    IN total[Len(gs)]

\* Position in the input of a record (records of one snapshot are distinct).
PositionIn(ns, n) == CHOOSE k \in Indices(ns) : ns[k] = n

FirstPosition(ns, g) ==
    LET ps == {PositionIn(ns, g.notifications[j]) : j \in Indices(g.notifications)}
    IN CHOOSE p \in ps : \A q \in ps : p <= q

FirstOfDay(ns, day) ==
    LET ps == {k \in Indices(ns) : toDateString(ns[k].createdTime) = day}
    IN CHOOSE p \in ps : \A q \in ps : p <= q

DaysOf(ns) == {toDateString(ns[k].createdTime) : k \in Indices(ns)}

Partitioned(ns, gs) ==
    /\ \A k \in Indices(ns) : Cardinality(PlacesOf(ns, gs, k)) = 1
    /\ MemberCount(gs) = Len(ns)
    /\ (ns = <<>> => gs = <<>>)

\* C1: every input record is a member of exactly one returned group, the
\* groups hold nothing else, and the empty input yields the empty output.
C1_Partition == loaded => \A c \in Calls : Partitioned(c[1], c[2])

C1_Witness ==
    /\ loaded
    /\ Len(notifications) = 3
    /\ Len(grouped) = 2
    /\ \E i \in Indices(grouped) : Len(grouped[i].notifications) = 2

UniqueIds(gs) ==
    \A i, j \in Indices(gs) : i # j => gs[i].groupedById # gs[j].groupedById

\* C2 as stated: no two groups of one output have the same groupedById.
C2_UniqueGroupedById == loaded => \A c \in Calls : UniqueIds(c[2])

UniqueIdsPerDayAndType(gs) ==
    \A i, j \in Indices(gs) :
        (i # j /\ gs[i].timePeriod = gs[j].timePeriod /\ gs[i].type = gs[j].type)
            => gs[i].groupedById # gs[j].groupedById

\* C2 as amended: no two groups of one output with the same timePeriod and
\* the same type have the same groupedById.
C2_UniquePerDayAndType == loaded => \A c \in Calls : UniqueIdsPerDayAndType(c[2])

\* The same contract on two days: two groups of two days share a groupedById.
C2_Witness ==
    /\ loaded
    /\ \E i, j \in Indices(grouped) :
         /\ grouped[i].timePeriod # grouped[j].timePeriod
         /\ grouped[i].groupedById = grouped[j].groupedById
    /\ \E i, j \in Indices(grouped) :
         /\ i # j
         /\ grouped[i].timePeriod = grouped[j].timePeriod
         /\ grouped[i].type = "normal" /\ grouped[j].type = "normal"

InFirstOccurrenceOrder(ns, gs) ==
    \A i, j \in Indices(gs) : i < j =>
        /\ FirstOfDay(ns, gs[i].timePeriod) <= FirstOfDay(ns, gs[j].timePeriod)
        /\ gs[i].timePeriod = gs[j].timePeriod =>
             /\ gs[j].type # "income"
             /\ (gs[i].type = "normal" /\ gs[j].type = "normal") =>
                   FirstPosition(ns, gs[i]) < FirstPosition(ns, gs[j])

\* C4: days come in the order they first occur in the input, a day's income
\* group comes first, and its normal groups follow in the order their
\* contract ids first occur among the day's records.
C4_FirstOccurrenceOrder == loaded => \A c \in Calls : InFirstOccurrenceOrder(c[1], c[2])

NewestFirstStable(ns, gs) ==
    \A g \in NormalIn(gs) : \A i, j \in Indices(gs[g].notifications) : i < j =>
        LET a == gs[g].notifications[i]
            b == gs[g].notifications[j]
        IN /\ a.createdTime >= b.createdTime
           /\ a.createdTime = b.createdTime => PositionIn(ns, a) < PositionIn(ns, b)

\* C5: the members of a normal group are in non-increasing createdTime
\* order, and members of equal createdTime keep their input order.
C5_NewestFirstStable == loaded => \A c \in Calls : NewestFirstStable(c[1], c[2])

\* A group of three that the sort had to reorder and that has a tie.
C5_Witness ==
    /\ loaded
    /\ \E g \in NormalIn(grouped) :
         LET ms == grouped[g].notifications
         IN /\ Len(ms) = 3
            /\ ms[1].createdTime = ms[2].createdTime
            /\ ms[2].createdTime > ms[3].createdTime
            /\ ms[3].id < ms[2].id

UnseenRollup(gs) ==
    \A g \in NormalIn(gs) :
        gs[g].isSeen <=> (\E j \in Indices(gs[g].notifications) :
                              gs[g].notifications[j].isSeen = FALSE)

\* C6: a normal group's isSeen flag is true exactly when at least one of its
\* members has isSeen = FALSE.
C6_UnseenRollup == loaded => \A c \in Calls : UnseenRollup(c[2])

\* A normal group with a seen and an unseen member, flagged TRUE, next to a
\* normal group whose members are all seen, flagged FALSE.
C6_Witness ==
    /\ loaded
    /\ \E g, h \in NormalIn(grouped) :
         /\ grouped[g].isSeen
         /\ \E i, j \in Indices(grouped[g].notifications) :
              grouped[g].notifications[i].isSeen /\ ~grouped[g].notifications[j].isSeen
         /\ ~grouped[h].isSeen

IncomeTypesOfClaim ==
    {Some("bonus"), Some("tip"), Some("loan"), Some("betting_streak_bonus"),
     Some("tip_and_like")}

IncomeRule(ns, gs) ==
    LET incomeOf(day) ==
            LET test(n) == /\ toDateString(n.createdTime) = day
                           /\ n.sourceType \in IncomeTypesOfClaim
            IN SelectSeq(ns, test)
        groupsOf(day) == {i \in IncomeIn(gs) : gs[i].timePeriod = day}
    IN /\ \A day \in DaysOf(ns) :
            IF incomeOf(day) # <<>>
            THEN /\ Cardinality(groupsOf(day)) = 1
                 /\ \A i \in groupsOf(day) :
                      /\ gs[i].notifications = incomeOf(day)
                      /\ gs[i].groupedById = "income" \o day
                      /\ gs[i].isSeen = incomeOf(day)[1].isSeen
            ELSE groupsOf(day) = {}
       /\ \A i \in IncomeIn(gs) : gs[i].timePeriod \in DaysOf(ns)
       /\ \A g \in NormalIn(gs) : \A j \in Indices(gs[g].notifications) :
            gs[g].notifications[j].sourceType \notin IncomeTypesOfClaim

\* C7: a day with income records gets exactly one income group, holding the
\* day's income records in input order, keyed "income" + day and flagged
\* with the isSeen of the first of them; a day without gets none; no income
\* record is a member of a normal group.
C7_IncomeRule == loaded => \A c \in Calls : IncomeRule(c[1], c[2])

\* A day with an unseen and then a seen income record around a normal one.
C7_Witness ==
    /\ loaded
    /\ \E i \in IncomeIn(grouped) :
         LET ms == grouped[i].notifications
         IN /\ Len(ms) = 2
            /\ ms[1].id = 1 /\ ms[2].id = 3
            /\ ~ms[1].isSeen /\ ms[2].isSeen
    /\ NormalIn(grouped) # {}

Cohesive(gs) ==
    \A g \in NormalIn(gs) : \A i, j \in Indices(gs[g].notifications) :
        /\ toDateString(gs[g].notifications[i].createdTime) = gs[g].timePeriod
        /\ gs[g].notifications[i].sourceContractId = gs[g].notifications[j].sourceContractId

\* C8: the members of a normal group share one day, and either all carry the
\* same sourceContractId or all lack one.
C8_Cohesion == loaded => \A c \in Calls : Cohesive(c[2])

WithoutContract(gs, g) ==
    \E j \in Indices(gs[g].notifications) : gs[g].notifications[j].sourceContractId = None

KeyedBy(gs, sentinel) ==
    /\ \A g, h \in NormalIn(gs) :
         (gs[g].timePeriod = gs[h].timePeriod /\ WithoutContract(gs, g) /\ WithoutContract(gs, h))
            => g = h
    /\ \A g \in NormalIn(gs) :
         IF WithoutContract(gs, g)
         THEN gs[g].groupedById = sentinel
         ELSE \A j \in Indices(gs[g].notifications) :
                 gs[g].notifications[j].sourceContractId = Some(gs[g].groupedById)

\* C9 as stated: a day's normal records without a sourceContractId are in
\* one group whose groupedById is the empty string; every other normal
\* group's groupedById is the sourceContractId its members share.
C9_EmptySentinel == loaded => \A c \in Calls : KeyedBy(c[2], "")

\* C9 as amended: the groupedById of the group of records without a
\* sourceContractId is the string "undefined".
C9_UndefinedSentinel == loaded => \A c \in Calls : KeyedBy(c[2], "undefined")

\* Two records without a contract id in one group, next to a contract's group.
C9_Witness ==
    /\ loaded
    /\ \E g, h \in NormalIn(grouped) :
         /\ g # h
         /\ grouped[g].timePeriod = grouped[h].timePeriod
         /\ Len(grouped[g].notifications) = 2
         /\ \A j \in Indices(grouped[g].notifications) :
              grouped[g].notifications[j].sourceContractId = None
         /\ ~WithoutContract(grouped, h)

====
